---- MODULE Spec2Model ----
(***************************************************************************)
(* Model of Day_one/hash_to_poster.py: a seeded xorshift32 generator       *)
(* (make_rng / next_u32), the colour and number helpers (rand01, rgb, f),  *)
(* the scene composer build_svg and the command-line entry point main.     *)
(*                                                                         *)
(* Representation.                                                         *)
(*  - A 32-bit word is the set of its one-bits, a subset of 0..31 (bit 0   *)
(*    is the least significant).  XOR is symmetric difference, a shift     *)
(*    moves the positions, `& MASK32` intersects with 0..31.  An unmasked  *)
(*    Python int is a set of positions that may go beyond 31.              *)
(*  - rand01 returns u / 2^32; the model keeps the numerator u (a word).   *)
(*  - A number printed by f (two decimals) is an integer count of          *)
(*    hundredths.  It is computed in exact rational arithmetic and rounded *)
(*    to the nearest hundredth; Python computes in IEEE doubles, which     *)
(*    can differ only when the exact value lies within about 1e-13 of a    *)
(*    rounding tie.  "-0.00" and "0.00" are both 0 hundredths.             *)
(*  - sha256 is a table of the first four digest bytes of the seeds used.  *)
(*  - The ray end points (sin/cos of the angle) are kept as the inputs     *)
(*    that determine them: ray index, jitter draw, length draw (each draw  *)
(*    as its two 16-bit halves).                                           *)
(*  - `\E v \in {e} : A` is `LET v == e IN A` with e evaluated once.        *)
(***************************************************************************)
EXTENDS Integers, Sequences, FiniteSets

VARIABLES
    args,    \* args[p]: the parsed command line of run p: seed, size, cells
    pc,      \* pc[p]: position of run p: "main", "grid", "rays", "anchor",
             \*        "done", "rejected"; "rng" / "rgb" in the function specs
    state,   \* state[c]: the closure variable `state` of generator c
    calls,   \* calls[p]: number of next_u32 calls run p has made (history)
    gy,      \* gy[p]: grid row of the next cell
    gx,      \* gx[p]: grid column of the next cell
    i,       \* i[p]: index of the next ray
    parts,   \* parts[p]: the list `parts` of build_svg
    origin,  \* origin[p][k]: the step that appended parts[p][k] (history)
    skipped, \* skipped[p]: the cells run p skipped (history)
    file,    \* file[p]: the output file of run p
    stdout,  \* stdout[p]: lines run p wrote (print, or the SystemExit text)
    chan,    \* SpecRgb: the three drawn channels and the brighten flag
    colour   \* SpecRgb: the colour rgb returns for chan

vars == <<args, pc, state, calls, gy, gx, i, parts, origin, skipped, file,
          stdout, chan, colour>>

----------------------------------------------------------------------------
(* Bounds of the model *)

\* Grid resolutions explored: --cells in 1..MaxCells.
MaxCells == 3

\* Number of next_u32 calls followed from each seed in SpecRng.
MaxDraws == 400

\* SpecRgb: the green and blue channels are taken at ChanSamples + 1 evenly
\* spread values of 0..255 (the red channel takes every value).
ChanSamples == 12

\* Two independent runs.
Runs == 1..2

----------------------------------------------------------------------------
(* 32-bit words *)

\* MASK32 = 0xFFFFFFFF: the positions of its one-bits.
MASK32 == 0..31

Xor(a, b) == (a \ b) \cup (b \ a)

And(a, m) == a \cap m

Shl(a, k) == {j + k : j \in a}

Shr(a, k) == {j - k : j \in {q \in a : q >= k}}

\* The number a word of at most n bits stands for (n <= 30).
RECURSIVE Low(_, _)
Low(a, n) == IF n = 0 THEN 0
             ELSE Low(a, n - 1) + (IF (n - 1) \in a THEN 2 ^ (n - 1) ELSE 0)

\* The two 16-bit halves of a 32-bit word, as numbers.
Hi16(u) == Low(Shr(u, 16), 16)

Lo16(u) == Low(And(u, 0..15), 16)

Halves(u) == <<Hi16(u), Lo16(u)>>

----------------------------------------------------------------------------
(* make_rng *)

\* The seeds explored.
Seeds == {"abc123", "abc124", "s3864", "seed3144081558"}

\* hashlib.sha256(seed.encode("utf-8")).digest()[:4].  The digest of
\* "seed3144081558" is 00000000fc9c31c8..., the case `or 1` is there for.
Sha256First4(seed) ==
    CASE seed = "abc123" -> <<108, 161, 61, 82>>
      [] seed = "abc124" -> <<205, 112, 17, 231>>
      [] seed = "s3864"  -> <<96, 156, 28, 170>>
      [] seed = "seed3144081558" -> <<0, 0, 0, 0>>
      [] seed = ""       -> <<227, 176, 196, 66>>
      [] seed = "a"      -> <<202, 151, 129, 18>>
      [] seed = "hello"  -> <<44, 242, 77, 186>>
      [] seed = "poster" -> <<41, 59, 146, 7>>

\* int.from_bytes(bs, "big") for four bytes.
FromBytesBig(bs) ==
    {j \in 0..31 : (bs[4 - (j \div 8)] \div (2 ^ (j % 8))) % 2 = 1}

\* Mutant of make_rng: the `or 1` is missing.
make_rng_keeps_zero(seed) == FromBytesBig(Sha256First4(seed))

\* make_rng: the initial value of the closure variable `state`.
make_rng(seed) ==
    LET v == FromBytesBig(Sha256First4(seed))
    IN  IF v = {} THEN {0} ELSE v

\* Mutant of next_u32: the third step does not mask the shifted term and the
\* final re-mask is missing.
next_u32_unmasked(s) ==
    LET s1 == Xor(s, And(Shl(s, 13), MASK32))
        s2 == Xor(s1, Shr(s1, 17))
    IN  Xor(s2, Shl(s2, 5))

\* next_u32: the new value of `state`, which is also the value returned.
next_u32(s) ==
    LET s1 == Xor(s, And(Shl(s, 13), MASK32))
        s2 == Xor(s1, Shr(s1, 17))
        s3 == Xor(s2, And(Shl(s2, 5), MASK32))
    IN  And(s3, MASK32)

\* The generator as build_svg holds it: the closure's `state` and the number
\* of calls made so far.  Draw is one call of the closure.
Draw(g) == [s |-> next_u32(g.s), n |-> g.n + 1]

----------------------------------------------------------------------------
(* rand01, rgb, f *)

\* rand01: one draw u, returned as u / 2^32 (x is the numerator u).
rand01(g) == LET d == Draw(g) IN [g |-> d, x |-> d.s]

\* u % 2^k
ModPow2(u, k) == Low(And(u, 0..(k - 1)), k)

\* Mutant of Brighten: the `+ 1` of the bump is missing.
Brighten_no_plus_one(r, gr, b, brighten) ==
    IF brighten /\ (r + gr + b) < 180
    THEN LET bump == (180 - (r + gr + b)) \div 3
             Min(a, c) == IF a < c THEN a ELSE c
         IN  <<Min(255, r + bump), Min(255, gr + bump), Min(255, b + bump)>>
    ELSE <<r, gr, b>>

\* The second half of rgb: the optional lift of a dark colour.  The result
\* <<r, g, b>> stands for the text "rgb(r, g, b)".
Brighten(r, gr, b, brighten) ==
    IF brighten /\ (r + gr + b) < 180
    THEN LET bump == (180 - (r + gr + b)) \div 3 + 1
             Min(a, c) == IF a < c THEN a ELSE c
         IN  <<Min(255, r + bump), Min(255, gr + bump), Min(255, b + bump)>>
    ELSE <<r, gr, b>>

\* Mutant of rgb: the brighten flag is ignored, no colour is lifted.
rgb_never_brightens(g, brighten) ==
    LET d1 == Draw(g)
        d2 == Draw(d1)
        d3 == Draw(d2)
    IN  [g |-> d3,
         c |-> <<Low(And(d1.s, 0..7), 8), Low(And(Shr(d2.s, 8), 0..7), 8),
                 Low(And(Shr(d3.s, 16), 0..7), 8)>>]

\* Mutant of rgb: one draw feeds the three channels.
rgb_one_draw(g, brighten) ==
    LET d1 == Draw(g)
    IN  [g |-> d1,
         c |-> Brighten(Low(And(d1.s, 0..7), 8), Low(And(Shr(d1.s, 8), 0..7), 8),
                        Low(And(Shr(d1.s, 16), 0..7), 8), brighten)]

\* rgb: three draws, one channel from each (bits 0..7, 8..15, 16..23).
rgb(g, brighten) ==
    LET d1 == Draw(g)
        d2 == Draw(d1)
        d3 == Draw(d2)
    IN  [g |-> d3,
         c |-> Brighten(Low(And(d1.s, 0..7), 8), Low(And(Shr(d2.s, 8), 0..7), 8),
                        Low(And(Shr(d3.s, 16), 0..7), 8), brighten)]

\* f: the number  S * (K0 + (P * 2^16 + Q) / 2^32) / Dn  hundredths, printed
\* with two decimals, as a count of hundredths (round to nearest).
f(S, Dn, K0, P, Q) ==
    LET Qs == S * Q
        Ps == S * P + (Qs \div 65536)
        A  == S * K0 + (Ps \div 65536)
        half == IF (Ps % 65536) >= 32768 THEN 1 ELSE 0
    IN  (2 * A + half + Dn) \div (2 * Dn)

\* f(S / Dn * (K0 / 100 + k / 100 * x)) for a rand01 value x.
Affine(S, Dn, K0, k, x) == f(S, Dn, K0, k * Hi16(x), k * Lo16(x))

\* rand01(next_u32) < 0.15, that is floor(100 * x) < 15.
Below15(x) ==
    ((100 * Hi16(x) + ((100 * Lo16(x)) \div 65536)) \div 65536) < 15

----------------------------------------------------------------------------
(* build_svg *)

\* rays = 40
rays == 40

\* The geometry of one grid shape, each a count of hundredths as f prints it.
\* x is the rand01 value drawn for it; cell = size / cells.

\* cx = x0 + cell * (0.5 + (x - 0.5) * 0.5), with x0 = k * cell
Centre(size, cells, k, x) == Affine(size, cells, 100 * k + 25, 50, x)

\* alpha = 0.25 + x * 0.65
Opacity(x) == Affine(1, 1, 25, 65, x)

\* w = cell * (0.25 + x * 0.7)
Side(size, cells, x) == Affine(size, cells, 25, 70, x)

\* f(cx - w / 2), from the jitter draw xc and the side draw xw
Corner(size, cells, k, xc, xw) ==
    f(size, cells, 100 * k + 12, 50 * Hi16(xc) - 35 * Hi16(xw) + 32768,
      50 * Lo16(xc) - 35 * Lo16(xw))

\* Mutant of Radius: the factor 0.35 is 0.40.
Radius_too_wide(size, cells, x) == Affine(size, cells, 12, 40, x)

\* r = cell * (0.12 + x * 0.35)
Radius(size, cells, x) == Affine(size, cells, 12, 35, x)

\* The first two entries of parts: the root tag and the background.
Header(size) == [tag |-> "svg", width |-> size, height |-> size]

Background(size, fill) ==
    [tag |-> "rect", width |-> size, height |-> size, fill |-> fill]

\* One pass of the inner loop body for cell (y, x), from generator g:
\* the generator afterwards and the elements appended (none or one).
CellStep(g, size, cells, y, x) ==
    LET skip == rand01(g)
        jx   == rand01(skip.g)
        jy   == rand01(jx.g)
        col  == rgb(jy.g, TRUE)
        al   == rand01(col.g)
        kind == Draw(al.g)
        w    == rand01(kind)
        h    == rand01(w.g)
        r    == rand01(kind)
    IN  IF Below15(skip.x)
        THEN [g |-> skip.g, out |-> <<>>]
        ELSE IF ModPow2(kind.s, 1) = 0
        THEN [g |-> h.g,
              out |-> << [tag |-> "rect",
                          x |-> Corner(size, cells, x, jx.x, w.x),
                          y |-> Corner(size, cells, y, jy.x, h.x),
                          width |-> Side(size, cells, w.x),
                          height |-> Side(size, cells, h.x),
                          fill |-> col.c,
                          fill_opacity |-> Opacity(al.x)] >>]
        ELSE [g |-> r.g,
              out |-> << [tag |-> "circle",
                          cx |-> Centre(size, cells, x, jx.x),
                          cy |-> Centre(size, cells, y, jy.x),
                          r |-> Radius(size, cells, r.x),
                          fill |-> col.c,
                          fill_opacity |-> Opacity(al.x)] >>]

\* Mutant of NextCell: the grid is walked column by column.
NextCell_column_major(cells, y, x) ==
    IF y + 1 < cells THEN [gy |-> y + 1, gx |-> x, more |-> TRUE]
    ELSE [gy |-> 0, gx |-> x + 1, more |-> x + 1 < cells]

\* The two nested range(cells) loops: the cell after (y, x), if any.
NextCell(cells, y, x) ==
    IF x + 1 < cells THEN [gy |-> y, gx |-> x + 1, more |-> TRUE]
    ELSE [gy |-> y + 1, gx |-> 0, more |-> y + 1 < cells]

\* Mutant of RayStep: the stroke width is drawn before the stroke colour.
RayStep_width_first(g, k) ==
    LET ang == rand01(g)
        len == rand01(ang.g)
        wid == Draw(len.g)
        col == rgb(wid, TRUE)
    IN  [g |-> col.g,
         out |-> << [tag |-> "line", ray |-> k, jitter |-> Halves(ang.x),
                     vary |-> Halves(len.x), stroke |-> col.c,
                     stroke_width |-> 100 * (1 + ModPow2(wid.s, 2)),
                     stroke_opacity |-> 80] >>]

\* One pass of the ray loop body for ray k.
RayStep(g, k) ==
    LET ang == rand01(g)
        len == rand01(ang.g)
        col == rgb(len.g, TRUE)
        wid == Draw(col.g)
    IN  [g |-> wid,
         out |-> << [tag |-> "line", ray |-> k, jitter |-> Halves(ang.x),
                     vary |-> Halves(len.x), stroke |-> col.c,
                     stroke_width |-> 100 * (1 + ModPow2(wid.s, 2)),
                     stroke_opacity |-> 80] >>]

\* The centre circle: cx = cy = size / 2, r = size * 0.03.
Anchor(size, fill) ==
    [tag |-> "circle", cx |-> 50 * size, cy |-> 50 * size, r |-> 3 * size,
     fill |-> fill]

Footer == [tag |-> "/svg"]

----------------------------------------------------------------------------
(* main *)

\* --size must be >= 64
MinSize == 64

\* --cells must be >= 2
MinCells == 2

\* Mutant of Validate: the size check is off by one.
Validate_off_by_one(a) ==
    IF a.size < MinSize - 1 THEN "--size must be >= 64"
    ELSE IF a.cells < MinCells THEN "--cells must be >= 2"
    ELSE "ok"

\* The two checks of main: the SystemExit text, or "ok".
Validate(a) ==
    IF a.size < MinSize THEN "--size must be >= 64"
    ELSE IF a.cells < MinCells THEN "--cells must be >= 2"
    ELSE "ok"

NoFile == [exists |-> FALSE, lines |-> <<>>]

----------------------------------------------------------------------------
(* The runs *)

\* Mutant of Closure: `state` is one module-level variable, shared by all
\* generators.
Closure_shared(p) == 1

\* The closure cell that the make_rng call of run p creates: its own.
Closure(p) == p

\* The generator of run p, as its code sees it.
Gen(p) == [s |-> state[Closure(p)], n |-> calls[p]]

\* The accepted arguments explored: the smallest size and one that the
\* grid does not divide; every grid from the smallest to MaxCells.
Sizes == {MinSize, 100}

Configs == [seed : Seeds, size : Sizes, cells : MinCells..MaxCells]

\* Run 2 is given the arguments of run 1, or those with the size, the cell
\* count or both replaced by the largest rejected value.
Variants(a) ==
    {a, [a EXCEPT !.size = MinSize - 1], [a EXCEPT !.cells = MinCells - 1],
     [a EXCEPT !.size = MinSize - 1, !.cells = MinCells - 1]}

\* Two runs, parsed and not yet validated.
Init ==
    /\ \E a1 \in Configs : \E a2 \in Variants(a1) :
          args = [p \in Runs |-> IF p = 1 THEN a1 ELSE a2]
    /\ pc = [p \in Runs |-> "main"]
    /\ state = [c \in Runs |-> {}]
    /\ calls = [p \in Runs |-> 0]
    /\ gy = [p \in Runs |-> 0]
    /\ gx = [p \in Runs |-> 0]
    /\ i = [p \in Runs |-> 0]
    /\ parts = [p \in Runs |-> <<>>]
    /\ origin = [p \in Runs |-> <<>>]
    /\ skipped = [p \in Runs |-> {}]
    /\ file = [p \in Runs |-> NoFile]
    /\ stdout = [p \in Runs |-> <<>>]
    /\ chan = [r |-> 0, g |-> 0, b |-> 0, brighten |-> FALSE]
    /\ colour = <<>>

\* main, a check fails: SystemExit before build_svg is called.
Reject(p) ==
    /\ pc[p] = "main"
    /\ Validate(args[p]) # "ok"
    /\ pc' = [pc EXCEPT ![p] = "rejected"]
    /\ stdout' = [stdout EXCEPT ![p] = <<Validate(args[p])>>]
    /\ UNCHANGED <<args, state, calls, gy, gx, i, parts, origin, skipped,
                   file, chan, colour>>

\* main, both checks pass: build_svg up to the grid loops (make_rng, the
\* root tag, the background).
Begin(p) ==
    /\ pc[p] = "main"
    /\ Validate(args[p]) = "ok"
    /\ \E a \in {args[p]} :
       \E bg \in {rgb([s |-> make_rng(a.seed), n |-> calls[p]], FALSE)} :
           /\ state' = [state EXCEPT ![Closure(p)] = bg.g.s]
           /\ calls' = [calls EXCEPT ![p] = bg.g.n]
           /\ parts' = [parts EXCEPT
                          ![p] = <<Header(a.size), Background(a.size, bg.c)>>]
    /\ origin' = [origin EXCEPT ![p] = << <<"open">>, <<"background">> >>]
    /\ pc' = [pc EXCEPT ![p] = "grid"]
    /\ gy' = [gy EXCEPT ![p] = 0]
    /\ gx' = [gx EXCEPT ![p] = 0]
    /\ UNCHANGED <<args, i, skipped, file, stdout, chan, colour>>

\* One iteration of the grid loops.
GridCell(p) ==
    /\ pc[p] = "grid"
    /\ \E st \in {CellStep(Gen(p), args[p].size, args[p].cells, gy[p], gx[p])},
          nxt \in {NextCell(args[p].cells, gy[p], gx[p])} :
           /\ state' = [state EXCEPT ![Closure(p)] = st.g.s]
           /\ calls' = [calls EXCEPT ![p] = st.g.n]
           /\ parts' = [parts EXCEPT ![p] = @ \o st.out]
           /\ origin' = [origin EXCEPT
                  ![p] = IF st.out = <<>> THEN @
                         ELSE Append(@, <<"cell", gy[p], gx[p]>>)]
           /\ skipped' = [skipped EXCEPT
                  ![p] = IF st.out = <<>> THEN @ \cup {<<gy[p], gx[p]>>}
                         ELSE @]
           /\ gy' = [gy EXCEPT ![p] = nxt.gy]
           /\ gx' = [gx EXCEPT ![p] = nxt.gx]
           /\ pc' = [pc EXCEPT ![p] = IF nxt.more THEN "grid" ELSE "rays"]
    /\ UNCHANGED <<args, i, file, stdout, chan, colour>>

\* One iteration of the ray loop.
Ray(p) ==
    /\ pc[p] = "rays"
    /\ \E st \in {RayStep(Gen(p), i[p])} :
           /\ state' = [state EXCEPT ![Closure(p)] = st.g.s]
           /\ calls' = [calls EXCEPT ![p] = st.g.n]
           /\ parts' = [parts EXCEPT ![p] = @ \o st.out]
    /\ origin' = [origin EXCEPT ![p] = Append(@, <<"ray", i[p]>>)]
    /\ i' = [i EXCEPT ![p] = @ + 1]
    /\ pc' = [pc EXCEPT ![p] = IF i[p] + 1 < rays THEN "rays" ELSE "anchor"]
    /\ UNCHANGED <<args, gy, gx, skipped, file, stdout, chan, colour>>

\* The rest of build_svg (centre circle, closing tag, join) and of main
\* (write the file, print the completion line).
Finish(p) ==
    /\ pc[p] = "anchor"
    /\ \E col \in {rgb(Gen(p), TRUE)} :
       \E doc \in {parts[p] \o <<Anchor(args[p].size, col.c), Footer>>} :
           /\ state' = [state EXCEPT ![Closure(p)] = col.g.s]
           /\ calls' = [calls EXCEPT ![p] = col.g.n]
           /\ parts' = [parts EXCEPT ![p] = doc]
           /\ file' = [file EXCEPT ![p] = [exists |-> TRUE, lines |-> doc]]
    /\ origin' = [origin EXCEPT ![p] = @ \o << <<"anchor">>, <<"close">> >>]
    /\ stdout' = [stdout EXCEPT ![p] = <<"Wrote">>]
    /\ pc' = [pc EXCEPT ![p] = "done"]
    /\ UNCHANGED <<args, gy, gx, i, skipped, chan, colour>>

Next == \E p \in Runs : Reject(p) \/ Begin(p) \/ GridCell(p) \/ Ray(p) \/ Finish(p)

Spec == Init /\ [][Next]_vars

----------------------------------------------------------------------------
(* The generator alone: next_u32 called MaxDraws times from each seed *)

SeedsRng == Seeds \cup {"", "a", "hello", "poster"}

InitRng ==
    /\ \E sd \in SeedsRng :
          /\ args = [p \in Runs |-> [seed |-> sd, size |-> MinSize,
                                     cells |-> MinCells]]
          /\ state = [c \in Runs |-> make_rng(sd)]
    /\ pc = [p \in Runs |-> "rng"]
    /\ calls = [p \in Runs |-> 0]
    /\ gy = [p \in Runs |-> 0]
    /\ gx = [p \in Runs |-> 0]
    /\ i = [p \in Runs |-> 0]
    /\ parts = [p \in Runs |-> <<>>]
    /\ origin = [p \in Runs |-> <<>>]
    /\ skipped = [p \in Runs |-> {}]
    /\ file = [p \in Runs |-> NoFile]
    /\ stdout = [p \in Runs |-> <<>>]
    /\ chan = [r |-> 0, g |-> 0, b |-> 0, brighten |-> FALSE]
    /\ colour = <<>>

\* One call of the closure next_u32 of generator 1.
CallNextU32 ==
    /\ pc[1] = "rng"
    /\ calls[1] < MaxDraws
    /\ LET d == Draw(Gen(1))
       IN  /\ state' = [state EXCEPT ![Closure(1)] = d.s]
           /\ calls' = [calls EXCEPT ![1] = d.n]
    /\ UNCHANGED <<args, pc, gy, gx, i, parts, origin, skipped, file, stdout,
                   chan, colour>>

NextRng == CallNextU32

SpecRng == InitRng /\ [][NextRng]_vars

----------------------------------------------------------------------------
(* rgb on given channel values *)

Samples == {(255 * k) \div ChanSamples : k \in 0..ChanSamples}

InitRgb ==
    /\ chan \in [r : 0..255, g : Samples, b : Samples, brighten : BOOLEAN]
    /\ colour = <<>>
    /\ args = [p \in Runs |-> [seed |-> "", size |-> MinSize,
                               cells |-> MinCells]]
    /\ pc = [p \in Runs |-> "rgb"]
    /\ state = [c \in Runs |-> {}]
    /\ calls = [p \in Runs |-> 0]
    /\ gy = [p \in Runs |-> 0]
    /\ gx = [p \in Runs |-> 0]
    /\ i = [p \in Runs |-> 0]
    /\ parts = [p \in Runs |-> <<>>]
    /\ origin = [p \in Runs |-> <<>>]
    /\ skipped = [p \in Runs |-> {}]
    /\ file = [p \in Runs |-> NoFile]
    /\ stdout = [p \in Runs |-> <<>>]

\* The colour rgb makes of the three drawn channels.
ApplyRgb ==
    /\ colour = <<>>
    /\ colour' = Brighten(chan.r, chan.g, chan.b, chan.brighten)
    /\ UNCHANGED <<args, pc, state, calls, gy, gx, i, parts, origin, skipped,
                   file, stdout, chan>>

NextRgb == ApplyRgb

SpecRgb == InitRgb /\ [][NextRgb]_vars

----------------------------------------------------------------------------
(* Properties *)

Sum3(c) == c[1] + c[2] + c[3]

Last(s) == s[Len(s)]

\* The reference xorshift step: each XOR result is reduced mod 2^32.
Mod2to32(a) == a \cap (0..31)

RefStep(s) ==
    LET s1 == Mod2to32(Xor(s, Shl(s, 13)))
        s2 == Mod2to32(Xor(s1, Shr(s1, 17)))
    IN  Mod2to32(Xor(s2, Shl(s2, 5)))

\* C1: the generator state is never zero: make_rng yields a value in
\* 1..2^32-1 for every seed (a zero digest prefix becomes 1) and every
\* next_u32 call leaves a non-zero value in 1..2^32-1.
C1_StateNeverZero ==
    \A c \in Runs : pc[c] = "rng" => (state[c] # {} /\ state[c] \subseteq 0..31)

\* C1 witness: the seed whose digest prefix is zero, after several draws.
C1_Witness ==
    /\ pc[1] = "rng"
    /\ FromBytesBig(Sha256First4(args[1].seed)) = {}
    /\ calls[1] >= 3
    /\ state[1] # {}

\* C9: one next_u32 call stores (and returns) exactly the reference step
\* s1 = (s XOR (s << 13)) mod 2^32, s2 = (s1 XOR (s1 >> 17)) mod 2^32,
\* s3 = (s2 XOR (s2 << 5)) mod 2^32, and the result fits in 32 bits.
C9_StepIsReference ==
    [][calls'[1] # calls[1] =>
          /\ state'[1] = RefStep(state[1])
          /\ state'[1] \subseteq 0..31
          /\ calls'[1] = calls[1] + 1]_vars

\* C9 witness: a call was made on a state both of whose left shifts
\* overflow 32 bits, so that the place of the mask matters.
C9_Witness ==
    /\ pc[1] = "rng"
    /\ calls[1] >= 2
    /\ 31 \in state[1]
    /\ 19 \in state[1]

\* C2 (amended): in the grid phase every cell costs 1 skip-check draw; a
\* skipped cell costs nothing more; a non-skipped cell costs 9 further draws
\* for a rectangle and 8 for a circle (10 and 9 with the skip check).
C2_GridDraws ==
    [][\A p \in Runs :
          (pc[p] = "grid" /\ calls'[p] # calls[p]) =>
              calls'[p] - calls[p] =
                  IF Len(parts'[p]) = Len(parts[p]) THEN 1
                  ELSE IF Last(parts'[p]).tag = "rect" THEN 1 + 9
                  ELSE 1 + 8]_vars

\* C2 as claimed: 1 skip-check draw per cell plus 10 draws for a rectangle
\* and 9 draws for a circle.
C2_Original ==
    [][\A p \in Runs :
          (pc[p] = "grid" /\ calls'[p] # calls[p]) =>
              calls'[p] - calls[p] =
                  IF Len(parts'[p]) = Len(parts[p]) THEN 1
                  ELSE IF Last(parts'[p]).tag = "rect" THEN 1 + 10
                  ELSE 1 + 9]_vars

\* C2 witness: a run past the grid that skipped a cell and emitted both a
\* rectangle and a circle.
C2_Witness ==
    \E p \in Runs :
        /\ pc[p] = "rays"
        /\ skipped[p] # {}
        /\ \E k \in 3..Len(parts[p]) : parts[p][k].tag = "rect"
        /\ \E k \in 3..Len(parts[p]) : parts[p][k].tag = "circle"

\* What one ray makes of the generator state s0, draw by draw.
RayDraws(s0) ==
    LET d1 == next_u32(s0)
        d2 == next_u32(d1)
        d3 == next_u32(d2)
        d4 == next_u32(d3)
        d5 == next_u32(d4)
        d6 == next_u32(d5)
    IN  [last |-> d6,
         jitter |-> Halves(d1),
         vary |-> Halves(d2),
         stroke |-> Brighten(ModPow2(d3, 8), ModPow2(Shr(d4, 8), 8),
                             ModPow2(Shr(d5, 16), 8), TRUE),
         width6 |-> 100 * (1 + ModPow2(d6, 2))]

\* C3 (amended): each of the 40 rays consumes exactly 6 draws, in the order
\* angle jitter (1), length variation (1), stroke colour (3), stroke width
\* (1), whatever the seed.
C3_RayDraws ==
    [][\A p \in Runs :
          (pc[p] = "rays" /\ calls'[p] # calls[p]) =>
              \E d \in {RayDraws(state[Closure(p)])},
                 e \in {Last(parts'[p])} :
                  /\ calls'[p] = calls[p] + 6
                  /\ state'[Closure(p)] = d.last
                  /\ Len(parts'[p]) = Len(parts[p]) + 1
                  /\ e.tag = "line"
                  /\ e.ray = i[p]
                  /\ e.jitter = d.jitter
                  /\ e.vary = d.vary
                  /\ e.stroke = d.stroke
                  /\ e.stroke_width = d.width6]_vars

\* C3 as claimed: each ray consumes exactly 4 draws.
C3_Original ==
    [][\A p \in Runs :
          (pc[p] = "rays" /\ calls'[p] # calls[p]) =>
              calls'[p] = calls[p] + 4]_vars

\* C3 witness: all 40 rays emitted.
C3_Witness ==
    \E p \in Runs :
        /\ pc[p] = "anchor"
        /\ i[p] = rays
        /\ Cardinality({k \in 1..Len(parts[p]) : parts[p][k].tag = "line"}) = 40

\* C4: channels with r + g + b < 180, brightening enabled: the colour
\* returned has channel sum >= 180 and every channel <= 255.
C4_Brightening ==
    (colour # <<>> /\ chan.brighten /\ chan.r + chan.g + chan.b < 180) =>
        /\ Sum3(colour) >= 180
        /\ \A k \in 1..3 : colour[k] \in 0..255

\* C4 witness: a dark colour was brightened.
C4_Witness ==
    /\ colour # <<>>
    /\ chan.brighten
    /\ chan.r + chan.g + chan.b = 179
    /\ colour # <<chan.r, chan.g, chan.b>>

\* The indices of the grid shapes in parts[p].
GridShapes(p) == {k \in 1..Len(parts[p]) : origin[p][k][1] = "cell"}

\* C5 (amended): every grid shape has a fill opacity in [0.25, 0.90]; the
\* radius of a grid circle is a value of [0.12, 0.47] x cell size printed
\* with two decimals, so the emitted radius is within 0.005 of that range.
C5_OpacityAndRadius ==
    \A p \in Runs : \A k \in GridShapes(p) :
        \E e \in {parts[p][k]}, a \in {args[p]} :
            /\ e.fill_opacity >= 25
            /\ e.fill_opacity <= 90
            /\ e.tag = "circle" =>
                  /\ 2 * e.r * a.cells >= 2 * 12 * a.size - a.cells
                  /\ 2 * e.r * a.cells <= 2 * 47 * a.size + a.cells

\* C5 as claimed: the emitted radius itself lies in [0.12, 0.47] x cell size.
C5_Original ==
    \A p \in Runs : \A k \in GridShapes(p) :
        \E e \in {parts[p][k]}, a \in {args[p]} :
            /\ e.fill_opacity >= 25
            /\ e.fill_opacity <= 90
            /\ e.tag = "circle" =>
                  /\ e.r * a.cells >= 12 * a.size
                  /\ e.r * a.cells <= 47 * a.size

\* C5 witness: a finished document with a grid rectangle and a grid circle
\* whose printed radius was rounded up past 0.47 x cell size.
C5_Witness ==
    \E p \in Runs :
        /\ pc[p] = "done"
        /\ \E k \in GridShapes(p) : parts[p][k].tag = "rect"
        /\ \E k \in GridShapes(p) :
              /\ parts[p][k].tag = "circle"
              /\ parts[p][k].r * args[p].cells > 47 * args[p].size
              /\ parts[p][k].fill_opacity \in 25..90

\* Run p and run q are at the same place of the program.
SamePlace(p, q) ==
    /\ pc[p] = pc[q]
    /\ gy[p] = gy[q]
    /\ gx[p] = gx[q]
    /\ i[p] = i[q]

\* C6: two runs with the same seed, size and cell count are identical: at
\* the same place they have made the same draws, hold the same generator
\* state and have emitted the same elements, and they write the same file.
C6_Determinism ==
    \A p \in Runs, q \in Runs :
        (args[p] = args[q] /\ SamePlace(p, q)) =>
            /\ calls[p] = calls[q]
            /\ pc[p] \notin {"main", "rejected"} =>
                  state[Closure(p)] = state[Closure(q)]
            /\ parts[p] = parts[q]
            /\ file[p] = file[q]
            /\ stdout[p] = stdout[q]

\* C6 witness: both runs, given the same arguments, have written a file.
C6_Witness ==
    /\ args[1] = args[2]
    /\ pc[1] = "done"
    /\ pc[2] = "done"
    /\ file[1].exists
    /\ file[2].exists
    /\ Len(file[1].lines) > 40

\* C7: a run with size < 64 or cells < 2 is rejected before any draw or
\* drawing and writes no file; a run with size = 64 and cells = 2 is not
\* rejected and writes its document.
C7_Validation ==
    \A p \in Runs :
        /\ (args[p].size < 64 \/ args[p].cells < 2) =>
              /\ pc[p] \in {"main", "rejected"}
              /\ calls[p] = 0
              /\ parts[p] = <<>>
              /\ file[p] = NoFile
              /\ pc[p] = "rejected" => stdout[p] # <<"Wrote">>
        /\ (args[p].size = 64 /\ args[p].cells = 2) =>
              /\ pc[p] # "rejected"
              /\ pc[p] = "done" =>
                    (file[p].exists /\ file[p].lines = parts[p]
                     /\ stdout[p] = <<"Wrote">>)

\* C7 witness: run 2 was rejected for size 63 and left no file, run 1 with
\* size 64 and 2 cells wrote its file.
C7_Witness ==
    /\ args[2].size = 63
    /\ pc[2] = "rejected"
    /\ ~file[2].exists
    /\ args[1].size = 64
    /\ args[1].cells = 2
    /\ pc[1] = "done"
    /\ file[1].exists

\* The phase an element belongs to.
Rank(o) ==
    CASE o[1] = "open" -> 0
      [] o[1] = "background" -> 1
      [] o[1] = "cell" -> 2
      [] o[1] = "ray" -> 3
      [] o[1] = "anchor" -> 4
      [] o[1] = "close" -> 5

\* The cells run p has been through.
Visited(p) ==
    LET n == args[p].cells
        all == (0..(n - 1)) \X (0..(n - 1))
    IN  IF pc[p] \in {"main", "rejected"} THEN {}
        ELSE IF pc[p] = "grid"
        THEN {c \in all : c[1] * n + c[2] < gy[p] * n + gx[p]}
        ELSE all

\* C8: the document is one background rectangle, then the grid shapes in
\* row-major order, exactly one per non-skipped cell and none for a skipped
\* cell, then exactly 40 ray lines, then exactly one anchor circle.
C8_DocumentOrder ==
    \A p \in Runs :
        \E o \in {origin[p]}, d \in {parts[p]}, n \in {args[p].cells} :
            /\ Len(o) = Len(d)
            /\ Len(o) >= 1 => o[1] = <<"open">>
            /\ Len(o) >= 2 => o[2] = <<"background">>
            /\ \A k \in 1..(Len(o) - 1) :
                  /\ Rank(o[k]) <= Rank(o[k + 1])
                  /\ Rank(o[k]) = Rank(o[k + 1]) => Rank(o[k]) \in {2, 3}
                  /\ (Rank(o[k]) = 2 /\ Rank(o[k + 1]) = 2) =>
                        o[k][2] * n + o[k][3] < o[k + 1][2] * n + o[k + 1][3]
                  /\ (Rank(o[k]) = 3 /\ Rank(o[k + 1]) = 3) =>
                        o[k + 1][2] = o[k][2] + 1
            /\ \A k \in 1..Len(o) :
                  /\ Rank(o[k]) = 0 => d[k].tag = "svg"
                  /\ Rank(o[k]) = 1 =>
                        (d[k].tag = "rect" /\ "x" \notin DOMAIN d[k])
                  /\ Rank(o[k]) = 2 =>
                        (d[k].tag \in {"rect", "circle"}
                         /\ "fill_opacity" \in DOMAIN d[k])
                  /\ Rank(o[k]) = 3 => d[k].tag = "line"
                  /\ Rank(o[k]) = 4 =>
                        (d[k].tag = "circle" /\ "fill_opacity" \notin DOMAIN d[k])
                  /\ Rank(o[k]) = 5 => d[k].tag = "/svg"
            /\ {<<o[k][2], o[k][3]>> : k \in GridShapes(p)} \cup skipped[p]
                  = Visited(p)
            /\ {<<o[k][2], o[k][3]>> : k \in GridShapes(p)} \cap skipped[p] = {}
            /\ pc[p] \in {"main", "rejected"} => Len(o) = 0
            /\ pc[p] = "grid" => Rank(Last(o)) \in {1, 2}
            /\ pc[p] = "rays" =>
                  Cardinality({k \in 1..Len(o) : Rank(o[k]) = 3}) = i[p]
            /\ pc[p] \in {"anchor", "done"} =>
                  Cardinality({k \in 1..Len(o) : Rank(o[k]) = 3}) = 40
            /\ pc[p] = "done" =>
                  /\ Cardinality({k \in 1..Len(o) : Rank(o[k]) = 4}) = 1
                  /\ Rank(Last(o)) = 5

\* C8 witness: a finished document with a skipped cell and shapes in two
\* different rows.
C8_Witness ==
    \E p \in Runs :
        /\ pc[p] = "done"
        /\ skipped[p] # {}
        /\ \E k \in GridShapes(p), m \in GridShapes(p) :
              origin[p][k][2] < origin[p][m][2]

\* The background colour as drawn: the channels of the first three draws.
RawBackground(seed) ==
    LET d1 == next_u32(make_rng(seed))
        d2 == next_u32(d1)
        d3 == next_u32(d2)
    IN  <<ModPow2(d1, 8), ModPow2(Shr(d2, 8), 8), ModPow2(Shr(d3, 16), 8)>>

\* C10: the background fill is the drawn colour, not brightened, whatever
\* its channel sum; every grid shape fill, ray stroke and the anchor fill
\* has channel sum >= 180.
C10_OnlyBackgroundUnbrightened ==
    \A p \in Runs : \A k \in 1..Len(parts[p]) :
        /\ Rank(origin[p][k]) \in {2, 4} => Sum3(parts[p][k].fill) >= 180
        /\ Rank(origin[p][k]) = 3 => Sum3(parts[p][k].stroke) >= 180
        /\ Rank(origin[p][k]) = 1 =>
              /\ parts[p][k].fill = RawBackground(args[p].seed)
              /\ Sum3(parts[p][k].fill) \in 0..765

\* C10 witness: a finished document whose background has channel sum below
\* 180, with grid shapes, rays and anchor present.
C10_Witness ==
    \E p \in Runs :
        /\ pc[p] = "done"
        /\ Sum3(parts[p][2].fill) < 180
        /\ GridShapes(p) # {}

====
